---- MODULE Spec2Model ----
(***************************************************************************)
(* Model of the two Haystack components of valyu-search-haystack:          *)
(*   ValyuContentFetcher (components/valyu_content_fetcher.py)             *)
(*   ValyuSearch         (components/valyu_search.py)                      *)
(* Each component is checked under its own specification: SpecFetch for    *)
(* ValyuContentFetcher.run, SpecSearch for ValyuSearch.run and SpecSerde   *)
(* for to_dict / from_dict of both classes.  The external Valyu SDK is the *)
(* environment: what it answers is a nondeterministic choice.              *)
(***************************************************************************)
EXTENDS Integers, Sequences, FiniteSets, TLC

VARIABLES
    self,               \* the component: its class and constructor settings
    urls,               \* ValyuContentFetcher.run argument
    query,              \* ValyuSearch.run argument (a sequence of characters)
    pc,                 \* position of the running call
    urls_to_fetch,      \* ValyuContentFetcher.run local
    i,                  \* ValyuContentFetcher.run loop variable
    fetched_documents,  \* ValyuContentFetcher.run local
    api_calls,          \* history: every SDK call made, with its request and answer
    log,                \* logger.warning records
    documents,          \* returned "documents"
    links,              \* returned "links"
    exception,          \* the exception that left the call (NoException when none did)
    serialized,         \* what to_dict returned
    loaded              \* what from_dict returned

vars == <<self, urls, query, pc, urls_to_fetch, i, fetched_documents,
          api_calls, log, documents, links, exception, serialized, loaded>>

----------------------------------------------------------------------------
(* Bounds of the model *)

\* largest number of distinct URLs handed to ValyuContentFetcher.run
MaxDistinct == 21
\* largest number of extra copies of one URL in the list
MaxRepeats == 2

\* Python's None where a string or an optional setting is expected
None == "<None>"

\* batch size of ValyuContentFetcher.run (API limit)
BatchSize == 10

\* no exception has left the call
NoException == [type |-> None, msg |-> None]

ErrorPrefix == "Valyu API returned error: "
UnknownError == "Unknown error"

----------------------------------------------------------------------------
(* Plain helpers *)

Min(a, b) == IF a < b THEN a ELSE b

Range(s) == {s[k] : k \in 1..Len(s)}

RECURSIVE Flatten(_)
Flatten(ss) == IF ss = <<>> THEN <<>> ELSE Head(ss) \o Flatten(Tail(ss))

\* Python slice s[a:b] for 0 <= a and 0 <= b
Slice(s, a, b) == SubSeq(s, a + 1, Min(b, Len(s)))

\* Python slice s[:k] for any integer k (a negative k counts from the end)
Truncate(s, k) ==
    IF k >= 0 THEN SubSeq(s, 1, Min(k, Len(s)))
    ELSE SubSeq(s, 1, Len(s) + k)

\* `x or default` on an optional string
OrDefault(x, default) == IF x = None \/ x = "" THEN default ELSE x

----------------------------------------------------------------------------
(* The api_key argument: a haystack Secret *)

\* Secret.from_env_var(names, strict)
EnvVarSecret(names, strict) ==
    [type |-> "env_var", env_vars |-> names, strict |-> strict, token |-> None]

\* Secret.from_token(token)
TokenSecret(token) ==
    [type |-> "token", env_vars |-> <<>>, strict |-> TRUE, token |-> token]

\* the default of both constructors: Secret.from_env_var("VALYU_API_KEY")
DefaultApiKey == EnvVarSecret(<<"VALYU_API_KEY">>, TRUE)

----------------------------------------------------------------------------
(* ValyuContentFetcher *)

FetcherDefaults ==
    [class |-> "ValyuContentFetcher", api_key |-> DefaultApiKey,
     extract_effort |-> None, response_length |-> None, summary |-> None]

\* list(dict.fromkeys(urls)): the first occurrence of every URL, in order
RECURSIVE DedupFrom(_, _)
DedupFrom(seen, rest) ==
    IF rest = <<>> THEN seen
    ELSE IF Head(rest) \in Range(seen) THEN DedupFrom(seen, Tail(rest))
    ELSE DedupFrom(Append(seen, Head(rest)), Tail(rest))

\* list(urls): the duplicates are kept
Dedup_KeepAll(us) == us

Dedup(us) == DedupFrom(<<>>, us)

\* the content of a result of the contents API: a str or a number
StrContent(s) == [kind |-> "str", s |-> s, n |-> 0]
IntContent(n) == [kind |-> "int", s |-> "", n |-> n]

\* str(content)
PyStr(content) == IF content.kind = "str" THEN content.s ELSE ToString(content.n)

\* the record the contents API returns for URL u
ContentsResult(u) ==
    [content |-> IF u % 2 = 0 THEN IntContent(u) ELSE StrContent("text"),
     url |-> u, title |-> "title", length |-> u,
     source |-> "web", data_type |-> "unstructured"]

\* what valyu_client.contents may do for a batch
ContentsResponses(batch) ==
    LET ok(rs) == [raises |-> FALSE, success |-> TRUE, error |-> None, results |-> rs]
        ko(e)  == [raises |-> FALSE, success |-> FALSE, error |-> e, results |-> <<>>]
    IN  { ok([k \in 1..Len(batch) |-> ContentsResult(batch[k])]),
          ok(<<ContentsResult(batch[1])>>),
          ko("quota exceeded"),
          ko(None),
          [raises |-> TRUE, success |-> FALSE, error |-> "timeout", results |-> <<>>] }

\* the Document built from one result (lines 109-125)
ContentDocument(r) ==
    [content |-> IF r.content.kind # "str" THEN PyStr(r.content) ELSE r.content.s,
     meta |-> [url |-> r.url, title |-> r.title, length |-> r.length,
               source |-> r.source, data_type |-> r.data_type]]

\* _call_api raising a fixed message, the API's error left out
FetcherCallApi_NoMessage(resp) ==
    IF resp.raises THEN [raised |-> TRUE, msg |-> resp.error, docs |-> <<>>]
    ELSE IF ~resp.success
        THEN [raised |-> TRUE, msg |-> ErrorPrefix \o UnknownError, docs |-> <<>>]
    ELSE [raised |-> FALSE, msg |-> None,
          docs |-> [k \in 1..Len(resp.results) |-> ContentDocument(resp.results[k])]]

\* _call_api after the SDK answered (lines 95-133): the documents, or the error raised
FetcherCallApi(resp) ==
    IF resp.raises THEN [raised |-> TRUE, msg |-> resp.error, docs |-> <<>>]
    ELSE IF ~resp.success
        THEN [raised |-> TRUE,
              msg |-> ErrorPrefix \o OrDefault(resp.error, UnknownError),
              docs |-> <<>>]
    ELSE [raised |-> FALSE, msg |-> None,
          docs |-> [k \in 1..Len(resp.results) |-> ContentDocument(resp.results[k])]]

\* lines 148-152: deduplicate, return at once when nothing remains
FetcherRun_Start ==
    /\ pc = "start"
    /\ IF urls.is_none
       THEN /\ pc' = "raised"
            /\ exception' = [type |-> "TypeError", msg |-> "'NoneType' object is not iterable"]
            /\ UNCHANGED <<urls_to_fetch, fetched_documents, documents>>
       ELSE /\ urls_to_fetch' = Dedup(urls.items)
            /\ IF Dedup(urls.items) = <<>>
               THEN pc' = "done" /\ documents' = <<>> /\ UNCHANGED fetched_documents
               ELSE pc' = "loop" /\ fetched_documents' = <<>> /\ UNCHANGED documents
            /\ UNCHANGED exception
    /\ i' = 0
    /\ UNCHANGED <<self, urls, query, api_calls, log, links, serialized, loaded>>

\* the batch loop without its try/except: a failing batch ends run
FetcherRun_Batch_NoCatch ==
    /\ pc = "loop"
    /\ i < Len(urls_to_fetch)
    /\ LET batch == SubSeq(urls_to_fetch, i + 1, Min(i + BatchSize, Len(urls_to_fetch)))
       IN \E resp \in ContentsResponses(batch) :
            LET out == FetcherCallApi(resp)
            IN  /\ api_calls' = Append(api_calls,
                        [urls |-> batch, summary |-> self.summary,
                         extract_effort |-> self.extract_effort,
                         response_length |-> self.response_length,
                         response |-> resp])
                /\ IF out.raised
                   THEN /\ pc' = "raised"
                        /\ exception' = [type |-> "ComponentError", msg |-> out.msg]
                        /\ UNCHANGED fetched_documents
                   ELSE /\ fetched_documents' = fetched_documents \o out.docs
                        /\ UNCHANGED <<pc, exception>>
    /\ i' = i + BatchSize
    /\ UNCHANGED <<self, urls, query, urls_to_fetch, documents, links, log,
                   serialized, loaded>>

\* lines 157-164: one iteration of the batch loop
FetcherRun_Batch ==
    /\ pc = "loop"
    /\ i < Len(urls_to_fetch)
    /\ LET batch == Slice(urls_to_fetch, i, i + BatchSize)
       IN \E resp \in ContentsResponses(batch) :
            LET out == FetcherCallApi(resp)
            IN  /\ api_calls' = Append(api_calls,
                        [urls |-> batch, summary |-> self.summary,
                         extract_effort |-> self.extract_effort,
                         response_length |-> self.response_length,
                         response |-> resp])
                /\ IF out.raised
                   THEN /\ log' = Append(log, [batch |-> (i \div BatchSize) + 1,
                                               msg |-> out.msg])
                        /\ UNCHANGED fetched_documents
                   ELSE /\ fetched_documents' = fetched_documents \o out.docs
                        /\ UNCHANGED log
    /\ i' = i + BatchSize
    /\ UNCHANGED <<self, urls, query, pc, urls_to_fetch, documents, links,
                   exception, serialized, loaded>>

\* line 166: the loop is over
FetcherRun_Return ==
    /\ pc = "loop"
    /\ i >= Len(urls_to_fetch)
    /\ pc' = "done"
    /\ documents' = fetched_documents
    /\ UNCHANGED <<self, urls, query, urls_to_fetch, i, fetched_documents,
                   api_calls, log, links, exception, serialized, loaded>>

\* n distinct URLs 1..n, with r extra copies of URL v right after position p
WithRepeats(n, p, v, r) ==
    [k \in 1..(n + r) |-> IF k <= p THEN k ELSE IF k <= p + r THEN v ELSE k - r]

UrlLists ==
    {WithRepeats(n, 0, 0, 0) : n \in 0..MaxDistinct}
    \cup UNION {UNION {{WithRepeats(n, p, v, r) : v \in 1..p, r \in 1..MaxRepeats} :
                        p \in 1..n} : n \in 1..MaxDistinct}

\* run(urls=None), the declared default, and run(urls=[...])
FetchInputs ==
    {[is_none |-> TRUE, items |-> <<>>]}
    \cup {[is_none |-> FALSE, items |-> us] : us \in UrlLists}

InitIdle ==
    /\ pc = "start"
    /\ urls_to_fetch = <<>>
    /\ i = 0
    /\ fetched_documents = <<>>
    /\ api_calls = <<>>
    /\ log = <<>>
    /\ documents = <<>>
    /\ links = <<>>
    /\ exception = NoException
    /\ serialized = None
    /\ loaded = None

FetchInit ==
    /\ self = FetcherDefaults
    /\ urls \in FetchInputs
    /\ query = <<>>
    /\ InitIdle

FetchNext == FetcherRun_Start \/ FetcherRun_Batch \/ FetcherRun_Return

SpecFetch == FetchInit /\ [][FetchNext]_vars

----------------------------------------------------------------------------
(* Properties of ValyuContentFetcher.run *)

CeilDiv(a, b) == (a + b - 1) \div b

\* position of the first occurrence of u in s
FirstIndex(s, u) == CHOOSE k \in 1..Len(s) : s[k] = u /\ \A j \in 1..(k - 1) : s[j] # u

\* d lists every element of s once, ordered by first occurrence in s
IsFirstSeenOrder(d, s) ==
    /\ Range(d) = Range(s)
    /\ \A a \in 1..(Len(d) - 1) : FirstIndex(s, d[a]) < FirstIndex(s, d[a + 1])

SentBatches == [k \in 1..Len(api_calls) |-> api_calls[k].urls]

CallFailed(call) == call.response.raises \/ ~call.response.success

FlagFailed(call) == ~call.response.raises /\ ~call.response.success

\* the documents a successful call produced, from its answer
ProducedBy(call) ==
    IF CallFailed(call) THEN <<>>
    ELSE [k \in 1..Len(call.response.results) |->
            [content |-> PyStr(call.response.results[k].content),
             meta |-> [url |-> call.response.results[k].url,
                       title |-> call.response.results[k].title,
                       length |-> call.response.results[k].length,
                       source |-> call.response.results[k].source,
                       data_type |-> call.response.results[k].data_type]]]

FetchReturned == pc = "done" /\ ~urls.is_none

\* C1: when run returns for a list of URLs, the contents API was called exactly
\* ceil(u/10) times for u distinct URLs, every call carried at most 10 URLs, and
\* the batches concatenated in call order are the distinct URLs in first-seen
\* order, whether or not calls failed.
C1_Batching ==
    FetchReturned =>
        /\ Len(api_calls) = CeilDiv(Cardinality(Range(urls.items)), 10)
        /\ \A k \in 1..Len(api_calls) : Len(api_calls[k].urls) <= 10
        /\ IsFirstSeenOrder(Flatten(SentBatches), urls.items)

C1_Witness ==
    /\ FetchReturned
    /\ Len(urls.items) > Cardinality(Range(urls.items))
    /\ Len(api_calls) = 3
    /\ CallFailed(api_calls[2])
    /\ Len(api_calls[3].urls) < 10

\* C2: a failing batch call does not stop run: run returns normally, every later
\* batch is still attempted, and the returned documents are the documents of the
\* calls that did not fail, concatenated in batch order.
C2_PartialResults ==
    /\ ~urls.is_none => pc # "raised" /\ exception = NoException
    /\ FetchReturned =>
        /\ Flatten(SentBatches) = urls_to_fetch
        /\ documents = Flatten([k \in 1..Len(api_calls) |-> ProducedBy(api_calls[k])])

C2_Witness ==
    /\ FetchReturned
    /\ Len(api_calls) = 3
    /\ CallFailed(api_calls[1])
    /\ ~CallFailed(api_calls[2])
    /\ api_calls[3].response.raises
    /\ Len(documents) = 10

\* C7 as claimed: a contents API answer with the failure flag set leaves run as a
\* component error carrying the API-supplied message.
C7_Propagates ==
    \A k \in 1..Len(api_calls) :
        FlagFailed(api_calls[k]) =>
            /\ pc = "raised"
            /\ exception.type = "ComponentError"
            /\ exception.msg = ErrorPrefix \o api_calls[k].response.error

\* C7 amended: a contents API answer with the failure flag set is raised inside
\* _call_api as a component error carrying the API-supplied message ("Unknown
\* error" when there is none); run catches it, logs a warning for that batch with
\* that message, returns normally without that batch's documents, and sends no
\* batch twice.
C7_CaughtAndLogged ==
    /\ \A k \in 1..Len(api_calls) :
        FlagFailed(api_calls[k]) =>
            /\ \E w \in 1..Len(log) :
                /\ log[w].batch = k
                /\ log[w].msg = ErrorPrefix \o
                        (IF api_calls[k].response.error \in {None, ""}
                         THEN "Unknown error" ELSE api_calls[k].response.error)
            /\ pc # "raised"
            /\ exception = NoException
            /\ \A d \in Range(fetched_documents) : d.meta.url \notin Range(api_calls[k].urls)
    /\ \A j, k \in 1..Len(api_calls) :
        j # k => Range(api_calls[j].urls) \cap Range(api_calls[k].urls) = {}

C7_Witness ==
    /\ pc = "done"
    /\ Len(api_calls) = 2
    /\ FlagFailed(api_calls[1])
    /\ api_calls[1].response.error = "quota exceeded"
    /\ ~CallFailed(api_calls[2])
    /\ documents # <<>>

\* C10 as claimed: with nothing to fetch (an empty list, or urls left at its
\* default None) run returns no documents, raises nothing and calls no API.
C10_NothingToFetch ==
    (pc \in {"done", "raised"} /\ (urls.is_none \/ urls.items = <<>>)) =>
        /\ pc = "done"
        /\ documents = <<>>
        /\ exception = NoException
        /\ api_calls = <<>>

----------------------------------------------------------------------------
(* ValyuSearch *)

\* largest top_k a ValyuSearch is configured with
MaxTopK == 2
\* largest number of results in one answer of the search API
MaxResults == 3
\* longest query
MaxQueryLen == 2

Chars == {" ", "\n", "q"}

Whitespace == {" ", "\n"}

\* str.strip(): leading and trailing whitespace removed
RECURSIVE LStrip(_)
LStrip(q) == IF q # <<>> /\ Head(q) \in Whitespace THEN LStrip(Tail(q)) ELSE q

RECURSIVE RStrip(_)
RStrip(q) ==
    IF q # <<>> /\ q[Len(q)] \in Whitespace THEN RStrip(SubSeq(q, 1, Len(q) - 1)) ELSE q

Strip(q) == RStrip(LStrip(q))

\* not query: the strip() test left out
IsBlank_NoStrip(q) == q = <<>>

\* line 155: not query or not query.strip()
IsBlank(q) == q = <<>> \/ Strip(q) = <<>>

Queries == UNION {[1..n -> Chars] : n \in 0..MaxQueryLen}

\* top_k is any int the constructor was given; the other settings come in pairs
SearchConfigs ==
    {[class |-> "ValyuSearch",
      api_key |-> DefaultApiKey,
      top_k |-> k, search_type |-> t[1], relevance_threshold |-> t[2],
      max_price |-> t[3]] :
     k \in -1..MaxTopK, t \in {<<"all", "0.5", 100>>, <<"web", "0.8", 20>>}}

\* the content of a search result: a str, a number, or a list of items of which
\* some are dicts (with or without "key" / "value") and some are not
TextContent(t) == [kind |-> "str", s |-> t, n |-> 0, items |-> <<>>]
NumberContent(n) == [kind |-> "int", s |-> "", n |-> n, items |-> <<>>]
ListContent(items) == [kind |-> "list", s |-> "", n |-> 0, items |-> items]
DictItem(k, v) == [is_dict |-> TRUE, key |-> k, value |-> v]
NonDictItem == [is_dict |-> FALSE, key |-> None, value |-> None]

\* item.get(name, '') of a dict item
ItemGet(x) == IF x = None THEN "" ELSE x

\* "\n".join(parts)
RECURSIVE Join(_)
Join(parts) ==
    IF parts = <<>> THEN ""
    ELSE IF Len(parts) = 1 THEN parts[1]
    ELSE parts[1] \o "\n" \o Join(Tail(parts))

\* lines 110-122: the text of a result's content
SearchContentText(content) ==
    IF content.kind = "list"
    THEN Join([k \in 1..Len(SelectSeq(content.items, LAMBDA it : it.is_dict)) |->
                LET it == SelectSeq(content.items, LAMBDA x : x.is_dict)[k]
                IN  ItemGet(it.key) \o ": " \o ItemGet(it.value)])
    ELSE IF content.kind = "str" THEN content.s
    ELSE ToString(content.n)

\* the k-th record of an answer: its url is set, empty or missing, and its
\* content is a str, a list or a number
SearchResult(k, urlKind, c) ==
    [content |-> CASE (k + c) % 3 = 0 -> TextContent("text " \o ToString(k))
                   [] (k + c) % 3 = 1 ->
                        ListContent(<<DictItem("name", ToString(k)), NonDictItem,
                                      DictItem(None, "v")>>)
                   [] OTHER -> NumberContent(k),
     title |-> "title " \o ToString(k),
     url |-> CASE urlKind = "set" -> "https://" \o ToString(k)
               [] urlKind = "empty" -> ""
               [] OTHER -> None,
     description |-> IF k % 2 = 0 THEN None ELSE "about " \o ToString(k),
     source |-> "web", relevance_score |-> k, price |-> k, length |-> k,
     data_type |-> "unstructured", image_url |-> None]

UrlKinds == {"set", "empty", "missing"}

\* what valyu_client.search may do
SearchResponses ==
    {[raises |-> FALSE, success |-> TRUE, error |-> None,
      results |-> [k \in 1..n |-> SearchResult(k, kinds[k], c)]] :
        n \in 0..MaxResults, kinds \in [1..MaxResults -> UrlKinds], c \in 0..2}
    \cup {[raises |-> FALSE, success |-> FALSE, error |-> e, results |-> <<>>] :
            e \in {None, "", "invalid api key"}}
    \cup {[raises |-> TRUE, success |-> FALSE, error |-> "timeout", results |-> <<>>]}

\* the request with the SDK's default limit instead of top_k
SearchRequest_DefaultLimit(q) ==
    [query |-> q, search_type |-> self.search_type, max_num_results |-> 10,
     is_tool_call |-> TRUE, relevance_threshold |-> self.relevance_threshold,
     max_price |-> self.max_price]

\* lines 92-99: the request sent
SearchRequest(q) ==
    [query |-> q, search_type |-> self.search_type, max_num_results |-> self.top_k,
     is_tool_call |-> TRUE, relevance_threshold |-> self.relevance_threshold,
     max_price |-> self.max_price]

\* lines 121-134: the Document built from one result
SearchDocument(r) ==
    [content |-> SearchContentText(r.content),
     meta |-> [title |-> r.title, url |-> r.url,
               description |-> OrDefault(r.description, ""),
               source |-> r.source, relevance_score |-> r.relevance_score,
               price |-> r.price, length |-> r.length,
               data_type |-> r.data_type, image_url |-> r.image_url]]

\* _call_api without the check of response.success
SearchCallApi_IgnoresFlag(resp) ==
    IF resp.raises
    THEN [raised |-> TRUE, error |-> [type |-> "SDKError", msg |-> resp.error],
          docs |-> <<>>]
    ELSE [raised |-> FALSE, error |-> NoException,
          docs |-> [k \in 1..Len(resp.results) |-> SearchDocument(resp.results[k])]]

\* _call_api after the SDK answered: the documents, or the error raised
SearchCallApi(resp) ==
    IF resp.raises
    THEN [raised |-> TRUE, error |-> [type |-> "SDKError", msg |-> resp.error],
          docs |-> <<>>]
    ELSE IF ~resp.success
    THEN [raised |-> TRUE,
          error |-> [type |-> "ComponentError",
                     msg |-> ErrorPrefix \o OrDefault(resp.error, UnknownError)],
          docs |-> <<>>]
    ELSE [raised |-> FALSE, error |-> NoException,
          docs |-> [k \in 1..Len(resp.results) |-> SearchDocument(resp.results[k])]]

\* line 162: the urls of the documents that have one
ExtractLinks(docs) ==
    LET withUrl == SelectSeq(docs, LAMBDA d : d.meta.url # None /\ d.meta.url # "")
    IN  [k \in 1..Len(withUrl) |-> withUrl[k].meta.url]

\* lines 155-157: an empty query returns at once
SearchRun_Blank ==
    /\ pc = "start"
    /\ IsBlank(query)
    /\ log' = Append(log, [batch |-> 0, msg |-> "Received empty query, returning no results"])
    /\ documents' = <<>>
    /\ links' = <<>>
    /\ pc' = "done"
    /\ UNCHANGED <<self, urls, query, urls_to_fetch, i, fetched_documents,
                   api_calls, exception, serialized, loaded>>

\* lines 159-164: call the API, extract the links, truncate both lists
SearchRun_Call ==
    /\ pc = "start"
    /\ ~IsBlank(query)
    /\ \E resp \in SearchResponses :
         LET out == SearchCallApi(resp)
         IN  /\ api_calls' = Append(api_calls,
                                    [request |-> SearchRequest(query), response |-> resp])
             /\ IF out.raised
                THEN /\ pc' = "raised"
                     /\ exception' = out.error
                     /\ UNCHANGED <<documents, links>>
                ELSE /\ pc' = "done"
                     /\ documents' = Truncate(out.docs, self.top_k)
                     /\ links' = Truncate(ExtractLinks(out.docs), self.top_k)
                     /\ UNCHANGED exception
    /\ UNCHANGED <<self, urls, query, urls_to_fetch, i, fetched_documents,
                   log, serialized, loaded>>

SearchInit ==
    /\ self \in SearchConfigs
    /\ urls = [is_none |-> FALSE, items |-> <<>>]
    /\ query \in Queries
    /\ InitIdle

SearchNext == SearchRun_Blank \/ SearchRun_Call

SpecSearch == SearchInit /\ [][SearchNext]_vars

----------------------------------------------------------------------------
(* Properties of ValyuSearch.run *)

OnlyWhitespace(q) == \A k \in 1..Len(q) : q[k] \in Whitespace

SearchEnded == pc \in {"done", "raised"}

\* run returned after an answer with success set
SearchSucceeded ==
    /\ pc = "done"
    /\ Len(api_calls) = 1
    /\ api_calls[1].response.success

ApiResults == api_calls[1].response.results

NonEmpty(u) == u # None /\ u # ""

\* C3: for a query that is empty or only whitespace, run returns documents=[] and
\* links=[], raises nothing and never calls the search API.
C3_BlankQuery ==
    (SearchEnded /\ OnlyWhitespace(query)) =>
        /\ pc = "done"
        /\ documents = <<>>
        /\ links = <<>>
        /\ exception = NoException
        /\ api_calls = <<>>

C3_Witness ==
    /\ pc = "done"
    /\ query = <<" ", "\n">>
    /\ api_calls = <<>>
    /\ documents = <<>>

\* C4 as claimed, for answers with at least two results: after a successful
\* answer with N results, documents and links are each no longer than the
\* configured top_k and documents are the first min(N, top_k) mapped results.
C4_TruncatedToTopK ==
    (SearchSucceeded /\ Len(ApiResults) >= 2) =>
        /\ Len(documents) <= self.top_k
        /\ Len(links) <= self.top_k
        /\ Len(documents) = Min(Len(ApiResults), self.top_k)
        /\ \A k \in 1..Len(documents) : documents[k] = SearchDocument(ApiResults[k])

\* The truncation of C4 for a configured top_k >= 0 (where documents[:top_k]
\* takes a prefix of length min(N, top_k)).
TruncatedWhenNonNegative ==
    (SearchSucceeded /\ self.top_k >= 0) =>
        /\ Len(documents) <= self.top_k
        /\ Len(links) <= self.top_k
        /\ Len(documents) = Min(Len(ApiResults), self.top_k)
        /\ \A k \in 1..Len(documents) : documents[k] = SearchDocument(ApiResults[k])

\* C5 as claimed, for a configured top_k >= 0: the returned links are, in order,
\* the non-empty url values of exactly the returned documents.
C5_LinksOfReturnedDocuments ==
    (SearchSucceeded /\ self.top_k >= 0) =>
        /\ Len(links) = Cardinality({k \in 1..Len(documents) : NonEmpty(documents[k].meta.url)})
        /\ \A a \in 1..Len(links) :
            \E k \in 1..Len(documents) :
                /\ documents[k].meta.url = links[a]
                /\ Cardinality({j \in 1..k : NonEmpty(documents[j].meta.url)}) = a

\* C6: for a non-blank query, an answer with the failure flag set makes run raise
\* a component error whose message carries the API's error message; nothing is
\* returned and the search API was called exactly once.
C6_ApiFailureRaises ==
    (Len(api_calls) > 0 /\ ~api_calls[1].response.raises
        /\ ~api_calls[1].response.success) =>
        /\ pc = "raised"
        /\ exception.type = "ComponentError"
        /\ NonEmpty(api_calls[1].response.error) =>
                exception.msg = "Valyu API returned error: " \o api_calls[1].response.error
        /\ documents = <<>>
        /\ links = <<>>
        /\ Len(api_calls) = 1

C6_Witness ==
    /\ pc = "raised"
    /\ Len(api_calls) = 1
    /\ ~api_calls[1].response.success
    /\ api_calls[1].response.error = "invalid api key"
    /\ exception.type = "ComponentError"

\* C9: for a non-blank query the search API is called exactly once, with
\* max_num_results = top_k and the configured search_type, relevance_threshold and
\* max_price; on success the k-th returned document is built from the k-th result
\* record alone (url, title, source, score, content as text).
C9_OneCallOneRecordPerDocument ==
    /\ (SearchEnded /\ ~OnlyWhitespace(query)) =>
        /\ Len(api_calls) = 1
        /\ api_calls[1].request.query = query
        /\ api_calls[1].request.max_num_results = self.top_k
        /\ api_calls[1].request.search_type = self.search_type
        /\ api_calls[1].request.relevance_threshold = self.relevance_threshold
        /\ api_calls[1].request.max_price = self.max_price
    /\ SearchSucceeded =>
        /\ Len(documents) <= Len(ApiResults)
        /\ \A k \in 1..Len(documents) :
            /\ documents[k].meta.url = ApiResults[k].url
            /\ documents[k].meta.title = ApiResults[k].title
            /\ documents[k].meta.source = ApiResults[k].source
            /\ documents[k].meta.relevance_score = ApiResults[k].relevance_score
            /\ ApiResults[k].content.kind = "str" =>
                    documents[k].content = ApiResults[k].content.s
            /\ ApiResults[k].content.kind = "int" =>
                    documents[k].content = ToString(ApiResults[k].content.n)
            /\ ApiResults[k].content.kind = "list" =>
                    documents[k].content = "name: " \o ToString(k) \o "\n: v"

C9_Witness ==
    /\ SearchSucceeded
    /\ self.top_k = 2
    /\ self.search_type = "web"
    /\ Len(documents) = 2
    /\ ApiResults[1].content.kind = "list"
    /\ ApiResults[2].content.kind = "int"

----------------------------------------------------------------------------
(* to_dict / from_dict of both components *)

\* the process environment: the variables that are set, and their values
EnvValue(name) == IF name = "VALYU_API_KEY" THEN "sk-valyu-0123" ELSE None

\* Secret.resolve_value(): the token, or the first environment variable set
RECURSIVE FirstSet(_)
FirstSet(names) ==
    IF names = <<>> THEN None
    ELSE IF EnvValue(Head(names)) # None THEN EnvValue(Head(names))
    ELSE FirstSet(Tail(names))

ResolveValue(secret) ==
    IF secret.type = "token" THEN secret.token ELSE FirstSet(secret.env_vars)

\* resolve_value() raises when a strict environment secret finds no variable set
ResolveRaises(secret) ==
    secret.type = "env_var" /\ secret.strict /\ FirstSet(secret.env_vars) = None

\* Secret.to_dict(): a token secret refuses to be serialized
SecretToDictRaises(secret) == secret.type = "token"

SecretToDict(secret) ==
    [type |-> "env_var", env_vars |-> secret.env_vars, strict |-> secret.strict]

\* deserialize_secrets_inplace: Secret.from_dict on the api_key entry
SecretFromDict(d) == EnvVarSecret(d.env_vars, d.strict)

ApiKeys ==
    {DefaultApiKey,
     EnvVarSecret(<<"VALYU_KEY_OVERRIDE", "VALYU_API_KEY">>, FALSE),
     TokenSecret("test-key")}

QualifiedName(class) ==
    IF class = "ValyuSearch"
    THEN "valyu_haystack.components.valyu_search.ValyuSearch"
    ELSE "valyu_haystack.components.valyu_content_fetcher.ValyuContentFetcher"

\* to_dict with max_price filled from top_k
ValyuSearch_to_dict_Slip(c) ==
    [type |-> QualifiedName("ValyuSearch"),
     init_parameters |->
        [api_key |-> SecretToDict(c.api_key),
         top_k |-> c.top_k,
         search_type |-> c.search_type,
         relevance_threshold |-> c.relevance_threshold,
         max_price |-> c.top_k]]

\* ValyuSearch.to_dict (valyu_search.py lines 68-75)
ValyuSearch_to_dict(c) ==
    [type |-> QualifiedName("ValyuSearch"),
     init_parameters |->
        [api_key |-> SecretToDict(c.api_key),
         top_k |-> c.top_k,
         search_type |-> c.search_type,
         relevance_threshold |-> c.relevance_threshold,
         max_price |-> c.max_price]]

\* ValyuSearch.from_dict (valyu_search.py lines 84-85) through __init__ (53-57)
ValyuSearch_from_dict(data) ==
    [class |-> "ValyuSearch",
     api_key |-> SecretFromDict(data.init_parameters.api_key),
     top_k |-> data.init_parameters.top_k,
     search_type |-> data.init_parameters.search_type,
     relevance_threshold |-> data.init_parameters.relevance_threshold,
     max_price |-> data.init_parameters.max_price]

\* ValyuContentFetcher.to_dict (valyu_content_fetcher.py lines 71-77)
ValyuContentFetcher_to_dict(c) ==
    [type |-> QualifiedName("ValyuContentFetcher"),
     init_parameters |->
        [api_key |-> SecretToDict(c.api_key),
         extract_effort |-> c.extract_effort,
         response_length |-> c.response_length,
         summary |-> c.summary]]

\* ValyuContentFetcher.from_dict (lines 86-87) through __init__ (57-60)
ValyuContentFetcher_from_dict(data) ==
    [class |-> "ValyuContentFetcher",
     api_key |-> SecretFromDict(data.init_parameters.api_key),
     extract_effort |-> data.init_parameters.extract_effort,
     response_length |-> data.init_parameters.response_length,
     summary |-> data.init_parameters.summary]

\* c.to_dict(): the mapping, or the ValueError of a token secret
Component_to_dict ==
    /\ pc = "start"
    /\ IF SecretToDictRaises(self.api_key)
       THEN /\ pc' = "raised"
            /\ exception' = [type |-> "ValueError",
                             msg |-> "Cannot serialize token-based secret"]
            /\ UNCHANGED serialized
       ELSE /\ pc' = "serialized"
            /\ serialized' = IF self.class = "ValyuSearch"
                             THEN ValyuSearch_to_dict(self)
                             ELSE ValyuContentFetcher_to_dict(self)
            /\ UNCHANGED exception
    /\ UNCHANGED <<self, urls, query, urls_to_fetch, i, fetched_documents,
                   api_calls, log, documents, links, loaded>>

\* cls.from_dict(data) on the class that produced data
Component_from_dict ==
    /\ pc = "serialized"
    /\ LET c == IF self.class = "ValyuSearch"
                THEN ValyuSearch_from_dict(serialized)
                ELSE ValyuContentFetcher_from_dict(serialized)
       IN  IF serialized.type # QualifiedName(self.class)
           THEN /\ pc' = "raised"
                /\ exception' = [type |-> "DeserializationError", msg |-> serialized.type]
                /\ UNCHANGED loaded
           ELSE IF ResolveRaises(c.api_key)
           THEN /\ pc' = "raised"
                /\ exception' = [type |-> "ValueError", msg |-> "no environment variable set"]
                /\ UNCHANGED loaded
           ELSE /\ pc' = "loaded"
                /\ loaded' = c
                /\ UNCHANGED exception
    /\ UNCHANGED <<self, urls, query, urls_to_fetch, i, fetched_documents,
                   api_calls, log, documents, links, serialized>>

\* the components that can have been constructed: __init__ resolved the key
SerdeConfigs ==
    {c \in
        {[class |-> "ValyuSearch", api_key |-> a, top_k |-> k, search_type |-> t[1],
          relevance_threshold |-> t[2], max_price |-> t[3]] :
            a \in ApiKeys, k \in -1..MaxTopK,
            t \in {<<"all", "0.5", 100>>, <<"web", "0.8", 20>>}}
        \cup
        {[class |-> "ValyuContentFetcher", api_key |-> a, extract_effort |-> e,
          response_length |-> r, summary |-> m] :
            a \in ApiKeys, e \in {None, "normal", "high"},
            r \in {None, "short", "2000"}, m \in {None, "True", "custom prompt"}} :
     ~ResolveRaises(c.api_key)}

SerdeInit ==
    /\ self \in SerdeConfigs
    /\ urls = [is_none |-> FALSE, items |-> <<>>]
    /\ query = <<>>
    /\ InitIdle

SerdeNext == Component_to_dict \/ Component_from_dict

SpecSerde == SerdeInit /\ [][SerdeNext]_vars

----------------------------------------------------------------------------
(* Properties of to_dict / from_dict *)

SameSettings(a, b) ==
    /\ a.class = b.class
    /\ a.api_key = b.api_key
    /\ IF a.class = "ValyuSearch"
       THEN /\ a.top_k = b.top_k
            /\ a.search_type = b.search_type
            /\ a.relevance_threshold = b.relevance_threshold
            /\ a.max_price = b.max_price
       ELSE /\ a.extract_effort = b.extract_effort
            /\ a.response_length = b.response_length
            /\ a.summary = b.summary

\* the strings the serialized api_key entry holds
SerializedKeyStrings ==
    {serialized.init_parameters.api_key.type}
    \cup Range(serialized.init_parameters.api_key.env_vars)

\* C8 as claimed: for every component configuration, to_dict then from_dict gives
\* a component of the same class with the same settings and the same API-key
\* reference, and the mapping does not hold the resolved secret.
C8_RoundTripAlways ==
    pc \in {"raised", "loaded"} =>
        /\ pc = "loaded"
        /\ SameSettings(loaded, self)
        /\ ResolveValue(self.api_key) \notin SerializedKeyStrings

\* C8 amended: for every component configuration whose API key is an
\* environment-variable secret, from_dict(to_dict(c)) is a component of the same
\* class with the same settings and the same API-key reference, and the mapping
\* never holds the resolved secret; for a token secret to_dict raises ValueError
\* and produces no mapping.
C8_RoundTripEnvVar ==
    /\ self.api_key.type = "env_var" =>
        /\ pc # "raised"
        /\ pc \in {"serialized", "loaded"} =>
                ResolveValue(self.api_key) \notin SerializedKeyStrings
        /\ pc = "loaded" => SameSettings(loaded, self)
    /\ self.api_key.type = "token" =>
        /\ pc \in {"start", "raised"}
        /\ pc = "raised" => exception.type = "ValueError"

C8_Witness ==
    /\ pc = "loaded"
    /\ self.class = "ValyuContentFetcher"
    /\ self.api_key.strict = FALSE
    /\ self.summary = "custom prompt"
    /\ loaded.summary = "custom prompt"
    /\ loaded.api_key.env_vars = <<"VALYU_KEY_OVERRIDE", "VALYU_API_KEY">>

====
